---- MODULE Spec2Model ----
(***************************************************************************)
(* Model of comicsocr/src/api.py: read_from_file, write_to_file,           *)
(* read_from_archive_file, _get_file_name and read_from_directory.         *)
(*                                                                         *)
(* A file name is the pair <<text before the last dot, text from the last  *)
(* dot on>>, so that "p1.jpg" is <<"p1", ".jpg">>, "tmp" is <<"tmp", "">>  *)
(* and the hidden file ".jpg" is <<"", ".jpg">>.  A path is the sequence   *)
(* of the names of its components.  Names hold no separator character.     *)
(*                                                                         *)
(* The disk is the set dirs of directories and the function files from     *)
(* file paths to contents.  The recursion of the program is kept in stack, *)
(* one frame per running call of read_from_directory or                    *)
(* read_from_archive_file; an uncaught exception empties the stack.        *)
(* config is always the default Config object.                             *)
(***************************************************************************)
EXTENDS Integers, Sequences, FiniteSets, TLC

VARIABLES
    dirs,      \* directories on disk
    files,     \* file path -> content
    out,       \* rows appended to outputPath by the current top-level call
    stack,     \* call frames, innermost last
    outcome,   \* how the current top-level call ended
    call,      \* the current top-level call
    log,       \* calls made to the collaborators by the current top-level call
    dirs0,     \* dirs when the current top-level call began
    files0,    \* files when the current top-level call began
    ncalls     \* top-level calls made so far

vars == <<dirs, files, out, stack, outcome, call, log, dirs0, files0, ncalls>>

MaxCalls == 2

IMAGE_EXTENSIONS == {".jpg", ".png", ".bmp", ".tiff"}

ARCHIVE_EXTENSIONS == {".rar", ".cbr", ".zip"}

-----------------------------------------------------------------------------
(* Paths *)

splitext(path) ==
    LET name == path[Len(path)]
    IN  IF name[1] = "" THEN "" ELSE name[2]

dirname(path) == SubSeq(path, 1, Len(path) - 1)

join(dir, name) == Append(dir, name)

_get_file_name_of_head(path) == path[Len(path) - 1]

_get_file_name(path) == path[Len(path)]

IsPrefix(p, q) == Len(p) <= Len(q) /\ SubSeq(q, 1, Len(p)) = p

tmpName == <<"tmp", "">>

-----------------------------------------------------------------------------
(* Values: None, or a script (sequence of lines), or a dict (sequence of   *)
(* <<key, value>> pairs in insertion order).                               *)

NoneV == [none |-> TRUE, val |-> <<>>]

Some(v) == [none |-> FALSE, val |-> v]

DictSet(d, k, v) ==
    IF \E i \in DOMAIN d : d[i][1] = k
    THEN [i \in DOMAIN d |-> IF d[i][1] = k THEN <<k, v>> ELSE d[i]]
    ELSE Append(d, <<k, v>>)

RECURSIVE DictUpdate(_, _)
DictUpdate(d, e) ==
    IF e = <<>> THEN d
    ELSE DictUpdate(DictSet(d, Head(e)[1], Head(e)[2]), Tail(e))

-----------------------------------------------------------------------------
(* Collaborators: the page recognizer and the archive tool *)

PageScript ==
    [c \in {"pg1", "pgOld", "pgSub", "pgA1", "pgA2", "pgB1", "pgN3", "pgI1", "pgE1"} |->
        CASE c = "pg1"   -> <<"HI">>
          [] c = "pgOld" -> <<"OLD">>
          [] c = "pgSub" -> <<"SUB">>
          [] c = "pgA1"  -> <<"HELLO">>
          [] c = "pgA2"  -> <<"WORLD", "AGAIN">>
          [] c = "pgB1"  -> <<"BYE">>
          [] c = "pgN3"  -> <<>>
          [] c = "pgI1"  -> <<"INNER">>
          [] c = "pgE1"  -> <<"LOST">>]

Readable(content) == content \in DOMAIN PageScript

Recognize(content) == PageScript[content]

ArchiveEntries ==
    [a \in {"A", "B", "N", "I", "X", "E", "R"} |->
        CASE a = "A" -> {<< <<<<"p1", ".jpg">>>>, "pgA1" >>, << <<<<"p2", ".jpg">>>>, "pgA2" >>}
          [] a = "B" -> {<< <<<<"p1", ".jpg">>>>, "pgB1" >>}
          [] a = "N" -> {<< <<<<"sub", "">>, <<"inner", ".cbr">>>>, "I" >>,
                         << <<<<"p3", ".jpg">>>>, "pgN3" >>}
          [] a = "I" -> {<< <<<<"p1", ".jpg">>>>, "pgI1" >>, << <<<<"notes", ".txt">>>>, "junk" >>}
          [] a = "X" -> {}
          [] a = "E" -> {<< <<<<"p1", ".jpg">>>>, "pgE1" >>}
          [] a = "R" -> {<< <<<<"p1", ".jpg">>>>, "bad" >>}]

Intact(content) == content \in DOMAIN ArchiveEntries /\ content # "X"

Extractable(content) == content # "E"

-----------------------------------------------------------------------------
(* Disk *)

ContentAt(f, path) == IF path \in DOMAIN f THEN f[path] ELSE "missing"

ListFiles(f, dir) == {p[Len(p)] : p \in {q \in DOMAIN f : dirname(q) = dir}}

ListDirs(ds, dir) == {s \in ds : Len(s) > 0 /\ dirname(s) = dir}

Orderings(S) ==
    {o \in [1..Cardinality(S) -> S] : \A i, j \in 1..Cardinality(S) : o[i] = o[j] => i = j}

MakeDir(ds, dir) == ds \cup {dir}

ExtractDirs(ds, outdir, entries) ==
    ds \cup UNION {{outdir \o SubSeq(e[1], 1, k) : k \in 1..(Len(e[1]) - 1)} : e \in entries}

ExtractFiles(f, outdir, entries) ==
    LET new == {outdir \o e[1] : e \in entries}
    IN  [p \in (DOMAIN f) \cup new |->
            IF p \in new THEN (CHOOSE e \in entries : outdir \o e[1] = p)[2] ELSE f[p]]

RemoveDirs(ds, dir) == {d \in ds : ~IsPrefix(dir, d)}

RemoveFiles(f, dir) == [p \in {q \in DOMAIN f : ~IsPrefix(dir, q)} |-> f[p]]

-----------------------------------------------------------------------------
(* write_to_file and read_from_file, as functions of the output so far.    *)
(* io is [out, log, raised, exc]; caller names the function that writes.   *)

NoExc == <<"", "">>

Io(o, l) == [out |-> o, log |-> l, raised |-> FALSE, exc |-> NoExc, ret |-> NoneV]

write_to_file(imagePath, script, io, caller) ==
    LET opened == [io EXCEPT !.log = Append(@, <<"open", imagePath, caller[1], caller[2]>>)]
    IN  IF script.none
        THEN [opened EXCEPT !.raised = TRUE, !.exc = <<"TypeError", "NoneType">>]
        ELSE [opened EXCEPT !.out = @ \o [i \in 1..Len(script.val) |-> <<imagePath, script.val[i]>>]]

read_from_file_late_check(imagePath, outputPath, f, io) ==
    LET fileExten == splitext(imagePath)
        content == ContentAt(f, imagePath)
        asked == [io EXCEPT !.log = Append(@, <<"recognize", imagePath, content>>)]
    IN  IF ~Readable(content)
        THEN [asked EXCEPT !.raised = TRUE, !.exc = <<"RecognizerFailure", "read">>]
        ELSE IF fileExten \notin IMAGE_EXTENSIONS
        THEN [asked EXCEPT !.raised = TRUE, !.exc = <<"Unsupported image file format: ", fileExten>>]
        ELSE IF outputPath
        THEN write_to_file(imagePath, Some(Recognize(content)), asked, <<"file", imagePath>>)
        ELSE [asked EXCEPT !.ret = Some(Recognize(content))]

read_from_file(imagePath, outputPath, f, io) ==
    LET fileExten == splitext(imagePath)
        content == ContentAt(f, imagePath)
        asked == [io EXCEPT !.log = Append(@, <<"recognize", imagePath, content>>)]
    IN  IF fileExten \notin IMAGE_EXTENSIONS
        THEN [io EXCEPT !.raised = TRUE, !.exc = <<"Unsupported image file format: ", fileExten>>]
        ELSE IF ~Readable(content)
        THEN [asked EXCEPT !.raised = TRUE, !.exc = <<"RecognizerFailure", "read">>]
        ELSE IF outputPath
        THEN write_to_file(imagePath, Some(Recognize(content)), asked, <<"file", imagePath>>)
        ELSE [asked EXCEPT !.ret = Some(Recognize(content))]

RECURSIVE WriteAll(_, _, _)
WriteAll(items, io, caller) ==
    IF items = <<>> \/ io.raised THEN io
    ELSE WriteAll(Tail(items), write_to_file(Head(items)[1], Head(items)[2], io, caller), caller)

-----------------------------------------------------------------------------
(* Call frames *)

Frame(fn, path, outputPath) ==
    [fn |-> fn, pc |-> IF fn = "dir" THEN "walk" ELSE "begin", path |-> path,
     outputPath |-> outputPath, results |-> <<>>,
     pending |-> IF fn = "dir" THEN <<path>> ELSE <<>>,
     subDir |-> <<>>, todo |-> {}, tempDir |-> <<>>]

Top == stack[Len(stack)]

Pop(s) == SubSeq(s, 1, Len(s) - 1)

SetTop(s, f) == [s EXCEPT ![Len(s)] = f]

Running == [kind |-> "running", val |-> NoneV, exc |-> NoExc]

Returned(v) == [kind |-> "returned", val |-> v, exc |-> NoExc]

Raised(exc) == [kind |-> "raised", val |-> NoneV, exc |-> exc]

Raise(exc) ==
    /\ stack' = <<>>
    /\ outcome' = Raised(exc)

\* The value v returned to the frames rest: to the top-level caller, to line
\* 110 of read_from_archive_file, or to lines 160-161 of read_from_directory.
Resume(rest, v) ==
    IF rest = <<>> THEN [stack |-> <<>>, outcome |-> Returned(v)]
    ELSE LET caller == rest[Len(rest)]
         IN  IF caller.fn = "arc"
             THEN [stack |-> SetTop(rest, [caller EXCEPT !.results = v.val, !.pc = "end"]),
                   outcome |-> outcome]
             ELSE IF v.none
             THEN [stack |-> <<>>, outcome |-> Raised(<<"TypeError", "NoneType">>)]
             ELSE [stack |-> SetTop(rest, [caller EXCEPT !.results = DictUpdate(@, v.val)]),
                   outcome |-> outcome]

Return(v) ==
    LET r == Resume(Pop(stack), v)
    IN  /\ stack' = r.stack
        /\ outcome' = r.outcome

-----------------------------------------------------------------------------
(* Initial disk *)

Root == <<<<"d", "">>>>

Slot(path, content) == IF content = "absent" THEN <<>> ELSE (path :> content)

OtherNames == {<<"cover", ".gif">>, <<"", ".jpg">>, <<"scan", ".JPG">>}

Init ==
    /\ \E a \in {"absent", "A", "N", "X", "E", "R"},
          b \in {"absent", "B", "X"},
          p \in {"absent", "pg1", "bad"},
          o \in {<<"", "">>} \cup OtherNames,
          old \in {"absent", "pgOld"},
          sub \in {"absent", "pgSub"} :
            /\ files = Slot(join(Root, <<"a", ".cbr">>), a)
                       @@ Slot(join(Root, <<"b", ".zip">>), b)
                       @@ Slot(join(Root, <<"p1", ".jpg">>), p)
                       @@ (IF o = <<"", "">> THEN <<>> ELSE (join(Root, o) :> "junk"))
                       @@ Slot(join(join(Root, tmpName), <<"old", ".jpg">>), old)
                       @@ Slot(join(join(Root, <<"sub", "">>), <<"q", ".png">>), sub)
            /\ dirs = {Root}
                      \cup (IF old = "absent" THEN {} ELSE {join(Root, tmpName)})
                      \cup (IF sub = "absent" THEN {} ELSE {join(Root, <<"sub", "">>)})
    /\ out = <<>>
    /\ stack = <<>>
    /\ outcome = [kind |-> "none", val |-> NoneV, exc |-> NoExc]
    /\ call = [fn |-> "none", path |-> <<>>, outputPath |-> FALSE]
    /\ log = <<>>
    /\ dirs0 = dirs
    /\ files0 = files
    /\ ncalls = 0

-----------------------------------------------------------------------------
(* Top-level calls *)

Begin(fn, path, outputPath) ==
    /\ stack = <<>>
    /\ ncalls < MaxCalls
    /\ ncalls' = ncalls + 1
    /\ call' = [fn |-> fn, path |-> path, outputPath |-> outputPath]
    /\ dirs0' = dirs
    /\ files0' = files

CallReadFromFile ==
    \E imagePath \in DOMAIN files, outputPath \in BOOLEAN :
        LET io == read_from_file(imagePath, outputPath, files, Io(<<>>, <<>>))
        IN  /\ Begin("file", imagePath, outputPath)
            /\ out' = io.out
            /\ log' = io.log
            /\ outcome' = IF io.raised THEN Raised(io.exc) ELSE Returned(io.ret)
            /\ UNCHANGED <<dirs, files, stack>>

CallReadFromArchiveFile ==
    \E path \in DOMAIN files, outputPath \in BOOLEAN :
        /\ Begin("arc", path, outputPath)
        /\ stack' = <<Frame("arc", path, outputPath)>>
        /\ outcome' = Running
        /\ out' = <<>>
        /\ log' = <<>>
        /\ UNCHANGED <<dirs, files>>

CallReadFromDirectory ==
    \E directory \in dirs, outputPath \in BOOLEAN :
        /\ Begin("dir", directory, outputPath)
        /\ stack' = <<Frame("dir", directory, outputPath)>>
        /\ outcome' = Running
        /\ out' = <<>>
        /\ log' = <<>>
        /\ UNCHANGED <<dirs, files>>

-----------------------------------------------------------------------------
(* read_from_archive_file *)

\* lines 99-110: extension check, integrity test, mkdir, extraction, and the
\* call of read_from_directory on the temporary directory
ArchiveBegin ==
    /\ stack # <<>>
    /\ Top.fn = "arc" /\ Top.pc = "begin"
    /\ LET path == Top.path
           fileExten == splitext(path)
           content == ContentAt(files, path)
           parentDir == dirname(path)
           tempDir == join(parentDir, tmpName)
           tested == Append(log, <<"test", path, content>>)
           extracting == tested \o << <<"mkdir", tempDir>>, <<"extract", path, content>> >>
       IN  IF fileExten \notin ARCHIVE_EXTENSIONS
           THEN /\ Raise(<<"Unsupported archive file format: ", fileExten>>)
                /\ UNCHANGED <<dirs, files, log>>
           ELSE IF ~Intact(content)
           THEN /\ Raise(<<"PatoolError", "test_archive">>)
                /\ log' = tested
                /\ UNCHANGED <<dirs, files>>
           ELSE IF ~Extractable(content)
           THEN \E done \in SUBSET ArchiveEntries[content] :
                    /\ done # ArchiveEntries[content]
                    /\ Raise(<<"PatoolError", "extract_archive">>)
                    /\ log' = extracting
                    /\ dirs' = ExtractDirs(MakeDir(dirs, tempDir), tempDir, done)
                    /\ files' = ExtractFiles(files, tempDir, done)
           ELSE /\ log' = extracting
                /\ dirs' = ExtractDirs(MakeDir(dirs, tempDir), tempDir, ArchiveEntries[content])
                /\ files' = ExtractFiles(files, tempDir, ArchiveEntries[content])
                /\ stack' = Append(SetTop(stack, [Top EXCEPT !.pc = "reading", !.tempDir = tempDir]),
                                   Frame("dir", tempDir, FALSE))
                /\ UNCHANGED outcome
    /\ UNCHANGED <<out, call, dirs0, files0, ncalls>>

\* lines 111-118: removal of the temporary directory, then write or return
ArchiveEnd ==
    /\ stack # <<>>
    /\ Top.fn = "arc" /\ Top.pc = "end"
    /\ LET path == Top.path
           results == Top.results
           removed == Append(log, <<"rm", Top.tempDir>>)
           rows == [i \in DOMAIN results |->
                       <<join(path, _get_file_name(results[i][1])), results[i][2]>>]
           io == WriteAll(rows, Io(out, removed), <<"arc", path>>)
       IN  /\ dirs' = RemoveDirs(dirs, Top.tempDir)
           /\ files' = RemoveFiles(files, Top.tempDir)
           /\ IF Top.outputPath
              THEN /\ out' = io.out
                   /\ log' = io.log
                   /\ IF io.raised THEN Raise(io.exc) ELSE Return(NoneV)
              ELSE /\ log' = removed
                   /\ Return(Some(results))
                   /\ UNCHANGED out
    /\ UNCHANGED <<call, dirs0, files0, ncalls>>

-----------------------------------------------------------------------------
(* read_from_directory *)

\* line 152: os.walk yields the next directory, top-down; a directory that
\* is gone when its turn comes is passed over
DirectoryWalk ==
    /\ stack # <<>>
    /\ Top.fn = "dir" /\ Top.pc = "walk" /\ Top.pending # <<>>
    /\ LET subDir == Head(Top.pending)
       IN  IF subDir \notin dirs
           THEN stack' = SetTop(stack, [Top EXCEPT !.pending = Tail(@)])
           ELSE \E order \in Orderings(ListDirs(dirs, subDir)) :
                    stack' = SetTop(stack, [Top EXCEPT !.pending = order \o Tail(@),
                                                      !.subDir = subDir,
                                                      !.todo = ListFiles(files, subDir),
                                                      !.pc = "file"])
    /\ UNCHANGED <<dirs, files, out, outcome, call, log, dirs0, files0, ncalls>>

\* line 153: the files of the yielded directory are exhausted
DirectoryNext ==
    /\ stack # <<>>
    /\ Top.fn = "dir" /\ Top.pc = "file" /\ Top.todo = {}
    /\ stack' = SetTop(stack, [Top EXCEPT !.pc = "walk"])
    /\ UNCHANGED <<dirs, files, out, outcome, call, log, dirs0, files0, ncalls>>

\* lines 154-158: an image file
DirectoryImage ==
    /\ stack # <<>>
    /\ Top.fn = "dir" /\ Top.pc = "file"
    /\ \E file \in Top.todo :
        LET fileExten == splitext(<<file>>)
            imagePath == join(Top.subDir, file)
            io == read_from_file(imagePath, Top.outputPath, files, Io(out, log))
        IN  /\ fileExten \in IMAGE_EXTENSIONS
            /\ out' = io.out
            /\ log' = io.log
            /\ IF io.raised
               THEN Raise(io.exc)
               ELSE /\ stack' = SetTop(stack, [Top EXCEPT !.results = DictSet(@, imagePath, io.ret),
                                                         !.todo = @ \ {file}])
                    /\ UNCHANGED outcome
    /\ UNCHANGED <<dirs, files, call, dirs0, files0, ncalls>>

\* lines 159-160: an archive file; line 161 runs when the call returns
DirectoryArchive ==
    /\ stack # <<>>
    /\ Top.fn = "dir" /\ Top.pc = "file"
    /\ \E file \in Top.todo :
        LET fileExten == splitext(<<file>>)
            imagePath == join(Top.subDir, file)
        IN  /\ fileExten \notin IMAGE_EXTENSIONS
            /\ fileExten \in ARCHIVE_EXTENSIONS
            /\ stack' = Append(SetTop(stack, [Top EXCEPT !.todo = @ \ {file}]),
                               Frame("arc", imagePath, Top.outputPath))
    /\ UNCHANGED <<dirs, files, out, outcome, call, log, dirs0, files0, ncalls>>

DirectorySkip_raises ==
    /\ stack # <<>>
    /\ Top.fn = "dir" /\ Top.pc = "file"
    /\ \E file \in Top.todo :
        LET fileExten == splitext(<<file>>)
            io == read_from_file(join(Top.subDir, file), Top.outputPath, files, Io(out, log))
        IN  /\ fileExten \notin IMAGE_EXTENSIONS
            /\ fileExten \notin ARCHIVE_EXTENSIONS
            /\ Raise(io.exc)
    /\ UNCHANGED <<dirs, files, out, call, log, dirs0, files0, ncalls>>

\* lines 156-161 when neither branch is taken
DirectorySkip ==
    /\ stack # <<>>
    /\ Top.fn = "dir" /\ Top.pc = "file"
    /\ \E file \in Top.todo :
        LET fileExten == splitext(<<file>>)
        IN  /\ fileExten \notin IMAGE_EXTENSIONS
            /\ fileExten \notin ARCHIVE_EXTENSIONS
            /\ stack' = SetTop(stack, [Top EXCEPT !.todo = @ \ {file}])
    /\ UNCHANGED <<dirs, files, out, outcome, call, log, dirs0, files0, ncalls>>

\* lines 162-166: write or return
DirectoryEnd ==
    /\ stack # <<>>
    /\ Top.fn = "dir" /\ Top.pc = "walk" /\ Top.pending = <<>>
    /\ LET io == WriteAll(Top.results, Io(out, log), <<"dir", Top.path>>)
       IN  IF Top.outputPath
           THEN /\ out' = io.out
                /\ log' = io.log
                /\ IF io.raised THEN Raise(io.exc) ELSE Return(NoneV)
           ELSE /\ Return(Some(Top.results))
                /\ UNCHANGED <<out, log>>
    /\ UNCHANGED <<dirs, files, call, dirs0, files0, ncalls>>

Next ==
    \/ CallReadFromFile
    \/ CallReadFromArchiveFile
    \/ CallReadFromDirectory
    \/ ArchiveBegin
    \/ ArchiveEnd
    \/ DirectoryWalk
    \/ DirectoryNext
    \/ DirectoryImage
    \/ DirectoryArchive
    \/ DirectorySkip
    \/ DirectoryEnd

Spec == Init /\ [][Next]_vars

-----------------------------------------------------------------------------
(* Properties *)

Ended == stack = <<>> /\ outcome.kind \in {"returned", "raised"}

ToolFailed == outcome.kind = "raised" /\ outcome.exc[1] \in {"RecognizerFailure", "PatoolError"}

ExtOf(path) == IF path[Len(path)][1] = "" THEN "" ELSE path[Len(path)][2]

IsImage(path) == ExtOf(path) \in {".jpg", ".png", ".bmp", ".tiff"}

IsArchive(path) == ExtOf(path) \in {".rar", ".cbr", ".zip"}

WorkspaceOf(path) == Append(SubSeq(path, 1, Len(path) - 1), <<"tmp", "">>)

\* contents of the images and archives packed in archive a, at any depth
RECURSIVE Inside(_)
Inside(a) ==
    LET es == {e \in ArchiveEntries[a] : IsImage(e[1]) \/ IsArchive(e[1])}
    IN  {e[2] : e \in es} \cup UNION {Inside(e[2]) : e \in {x \in es : IsArchive(x[1])}}

\* contents of the images and archives under directory dir when the call began
Under(dir) ==
    LET ps == {p \in DOMAIN files0 : SubSeq(p, 1, Len(dir)) = dir /\ (IsImage(p) \/ IsArchive(p))}
    IN  {files0[p] : p \in ps}
        \cup UNION {Inside(files0[p]) : p \in {q \in ps : IsArchive(q) /\ files0[q] \in DOMAIN ArchiveEntries}}

Sound(c) == c \in DOMAIN PageScript \/ (c \in DOMAIN ArchiveEntries /\ c \notin {"X", "E"})

Times(kind, c) == Cardinality({i \in DOMAIN log : log[i][1] = kind /\ log[i][3] = c})

\* C1: when a call of read_from_archive_file on a path with an archive
\* extension has ended, however it ended, no temporary directory made
\* during the call is left on disk.
C1_WorkspaceRemoved ==
    (call.fn = "arc" /\ IsArchive(call.path) /\ Ended)
        => \A i \in DOMAIN log : log[i][1] = "mkdir" => log[i][2] \notin dirs

\* C2: the result set returned by read_from_archive_file without an output
\* path on archive A has only keys A/pageName, none under the temporary
\* directory.
C2_KeysNameArchive ==
    (call.fn = "arc" /\ ~call.outputPath /\ outcome.kind = "returned")
        => \A i \in DOMAIN outcome.val.val :
              LET key == outcome.val.val[i][1]
              IN  /\ SubSeq(key, 1, Len(key) - 1) = call.path
                  /\ SubSeq(key, 1, Len(call.path)) # WorkspaceOf(call.path)

\* C3: read_from_directory with an output path, on a tree with at least one
\* recognized image or archive and without recognizer or archive tool
\* failure, returns without raising, and every line of every recognized page
\* is a row of the output.
C3_DirectoryWritesOutput ==
    (/\ call.fn = "dir" /\ call.outputPath /\ Ended /\ ~ToolFailed
     /\ \E p \in DOMAIN files0 :
            SubSeq(p, 1, Len(call.path)) = call.path /\ (IsImage(p) \/ IsArchive(p)))
        => /\ outcome.kind = "returned"
           /\ \A i \in DOMAIN log : log[i][1] = "recognize" =>
                \A k \in DOMAIN PageScript[log[i][3]] :
                    \E r \in DOMAIN out : out[r][2] = PageScript[log[i][3]][k]

\* C4: every row read_from_archive_file writes for archive A is identified
\* by A followed by the base name of a page recognized under the workspace
\* of A, at any depth, and no row is identified by a path in the workspace.
C4_RowsNameArchive ==
    /\ \A i \in DOMAIN log : (log[i][1] = "open" /\ log[i][3] = "arc") =>
          LET A == log[i][4]
              id == log[i][2]
          IN  /\ Len(id) = Len(A) + 1
              /\ SubSeq(id, 1, Len(A)) = A
              /\ SubSeq(id, 1, Len(A)) # WorkspaceOf(A)
              /\ \E j \in 1..(i - 1) :
                    /\ log[j][1] = "recognize"
                    /\ SubSeq(log[j][2], 1, Len(A)) = WorkspaceOf(A)
                    /\ log[j][2][Len(log[j][2])] = id[Len(id)]
    /\ \A r \in DOMAIN out : \E i \in DOMAIN log : log[i][1] = "open" /\ log[i][2] = out[r][1]
    /\ call.fn = "arc" => \A r \in DOMAIN out : SubSeq(out[r][1], 1, Len(out[r][1]) - 1) = call.path

C4_Witness ==
    /\ call.fn = "arc" /\ call.outputPath /\ outcome.kind = "returned"
    /\ \E r \in DOMAIN out :
          out[r] = << <<<<"d", "">>, <<"a", ".cbr">>, <<"p1", ".jpg">>>>, "INNER" >>

\* C5: in a read_from_directory call on a tree whose images are all readable
\* and whose archives are all intact and extractable, and where no recognizer
\* or archive tool call fails, every image under the tree, inside archives
\* too, is recognized exactly once and every archive is expanded exactly once.
C5_ExactlyOnce ==
    (/\ call.fn = "dir" /\ Ended /\ ~ToolFailed
     /\ \A c \in Under(call.path) : Sound(c))
        => \A c \in Under(call.path) :
              IF c \in DOMAIN PageScript THEN Times("recognize", c) = 1
                                         ELSE Times("extract", c) = 1

\* C6: a direct call of read_from_file on a path without image extension, or
\* of read_from_archive_file on a path without archive extension, ends by
\* raising an error that names the extension, with no call to the recognizer
\* or the archive tool, no change on disk and no output written.
C6_UnsupportedRaisedFirst ==
    /\ (call.fn = "file" /\ ~IsImage(call.path)) =>
          /\ outcome = [kind |-> "raised", val |-> [none |-> TRUE, val |-> <<>>],
                        exc |-> <<"Unsupported image file format: ", ExtOf(call.path)>>]
          /\ log = <<>> /\ out = <<>> /\ files = files0 /\ dirs = dirs0
    /\ (call.fn = "arc" /\ ~IsArchive(call.path)) =>
          /\ Len(stack) <= 1
          /\ stack = <<>> =>
                outcome = [kind |-> "raised", val |-> [none |-> TRUE, val |-> <<>>],
                           exc |-> <<"Unsupported archive file format: ", ExtOf(call.path)>>]
          /\ log = <<>> /\ out = <<>> /\ files = files0 /\ dirs = dirs0

C6_Witness ==
    /\ call.fn = "file"
    /\ call.path = <<<<"d", "">>, <<"cover", ".gif">>>>
    /\ outcome.kind = "raised"
    /\ outcome.exc = <<"Unsupported image file format: ", ".gif">>

\* C7: read_from_directory never raises an unsupported-format error and never
\* hands a file of unrecognized extension to the recognizer or the archive
\* tool nor records a key for it; on a tree holding only such files it
\* returns the empty result set (None with an output path) and writes nothing.
C7_UnrecognizedSkipped ==
    call.fn = "dir" =>
        /\ \A i \in DOMAIN log :
              /\ log[i][1] = "recognize" => IsImage(log[i][2])
              /\ log[i][1] \in {"test", "extract"} => IsArchive(log[i][2])
        /\ \A f \in DOMAIN stack : \A i \in DOMAIN stack[f].results :
              IsImage(stack[f].results[i][1])
        /\ outcome.kind = "raised" =>
              outcome.exc[1] \notin {"Unsupported image file format: ",
                                     "Unsupported archive file format: "}
        /\ (/\ Ended
            /\ \A p \in DOMAIN files0 :
                  SubSeq(p, 1, Len(call.path)) = call.path => ~(IsImage(p) \/ IsArchive(p)))
              => /\ outcome.kind = "returned"
                 /\ outcome.val = [none |-> call.outputPath, val |-> <<>>]
                 /\ log = <<>> /\ out = <<>>

C7_Witness ==
    /\ call = [fn |-> "dir", path |-> <<<<"d", "">>>>, outputPath |-> FALSE]
    /\ DOMAIN files0 = {<<<<"d", "">>, <<"cover", ".gif">>>>}
    /\ outcome = [kind |-> "returned", val |-> [none |-> FALSE, val |-> <<>>], exc |-> <<"", "">>]

\* C8: when an archive met by read_from_directory fails its integrity check
\* and nothing else under the tree is unreadable or unextractable, the call
\* still returns, and every other image and archive under the tree has been
\* processed.
C8_SiblingsUnaffected ==
    (/\ call.fn = "dir" /\ Ended
     /\ \E i \in DOMAIN log : log[i][1] = "test" /\ log[i][3] = "X"
     /\ \A c \in Under(call.path) \ {"X"} : Sound(c))
        => /\ outcome.kind = "returned"
           /\ \A c \in Under(call.path) \ {"X"} :
                 Times("recognize", c) + Times("extract", c) >= 1

\* C9: the result set returned by read_from_directory without an output path
\* has one entry for every page recognized during the traversal.
C9_OneEntryPerPage ==
    (call.fn = "dir" /\ ~call.outputPath /\ outcome.kind = "returned")
        => Len(outcome.val.val) = Cardinality({i \in DOMAIN log : log[i][1] = "recognize"})

\* C10: the files that a directory tmp beside the archive held before a call
\* of read_from_archive_file are not recognized during the call and are
\* still on disk, unchanged, when the call has returned.
C10_WorkspaceFresh ==
    (call.fn = "arc" /\ IsArchive(call.path) /\ stack = <<>> /\ outcome.kind = "returned")
        => \A p \in DOMAIN files0 :
              SubSeq(p, 1, Len(call.path)) = WorkspaceOf(call.path) =>
                  /\ p \in DOMAIN files
                  /\ files[p] = files0[p]
                  /\ ~\E i \in DOMAIN log :
                        log[i][1] = "recognize" /\ log[i][2] = p /\ log[i][3] = files0[p]

====
